---------------------------- MODULE Spec2Model ----------------------------
(***************************************************************************)
(* A model of FileUtils (src/fileUtils.h, src/fileUtils.cpp): the size     *)
(* index built by BuildFileMap, the staged comparator CompareFiles and the *)
(* clustering loop CompareMatchingKeys, driven by FindDups.                *)
(*                                                                         *)
(* The file system is the environment: a directory tree of regular files,  *)
(* sub-directories and other entries, fixed for the life of the instance.  *)
(* A file's content is given by its length and its bytes; a path is the    *)
(* sequence of names from the root.                                        *)
(***************************************************************************)
EXTENDS Integers, Sequences, FiniteSets, TLC

(***************************************************************************)
(* Bounds of the model.                                                    *)
(*   IntBits   width of the C++ int that keys file_map.  The source's int  *)
(*             is 32 bits wide; the model keeps the wrap-around and scales *)
(*             the width, so that file sizes of 2^IntBits and above stay   *)
(*             small numbers.                                              *)
(*   MaxFiles  number of regular files in the tree.                        *)
(*   MaxCalls  number of FindDups calls made on the one instance.          *)
(***************************************************************************)
IntBits == 8
MaxFiles == 3
MaxCalls == 2

\* fileUtils.h:39 and fileUtils.cpp:22-23
MAX_PASS == 6
BUFFER_SIZE == <<64, 255, 4096, 65535, 16777215, 268435456>>

Wrap == 2 ^ IntBits

Min(a, b) == IF a < b THEN a ELSE b

(***************************************************************************)
(* int size = file_size(path): the conversion of the unsigned file size to *)
(* int keeps the low IntBits bits, read as a two's complement number.      *)
(***************************************************************************)
ToInt(n) ==
  LET m == n % Wrap
  IN  IF m >= Wrap \div 2 THEN m - Wrap ELSE m

(***************************************************************************)
(* File contents.  A content is [len, fill, marks]: len bytes, each equal  *)
(* to fill except at the offsets in DOMAIN marks.                          *)
(***************************************************************************)
NoMarks == [p \in {} |-> 0]

Byte(c, p) == IF p \in DOMAIN c.marks THEN c.marks[p] ELSE c.fill

Content(len, fill, marks) == [len |-> len, fill |-> fill, marks |-> marks]

cEmpty  == Content(0, 0, NoMarks)                       \* zero-length file
cA      == Content(1, 97, NoMarks)                      \* "a"
cB      == Content(1, 98, NoMarks)                      \* "b"
cAZ     == Content(Wrap + 1, 0, (0 :> 97))              \* "a", then zeros
cAZX    == Content(Wrap + 1, 0, (0 :> 97) @@ (100 :> 120)) \* same, 'x' at 100

\* Byte equality of two contents, offset by offset.
SameBytes(c, d) ==
  /\ c.len = d.len
  /\ \A p \in 0 .. (c.len - 1) : Byte(c, p) = Byte(d, p)

(***************************************************************************)
(* Directory entries.  A regular file carries its content and whether      *)
(* fopen(path, "rb") succeeds on it; "other" is an entry that is neither a *)
(* directory nor a regular file.                                           *)
(***************************************************************************)
RegFile(name, c, ok) ==
  [kind |-> "file", name |-> name, content |-> c, openable |-> ok]
Dir(name, es) == [kind |-> "dir", name |-> name, entries |-> es]
Other(name) == [kind |-> "other", name |-> name]

FileKinds ==
  { [content |-> c, openable |-> TRUE] : c \in {cEmpty, cA, cB, cAZ, cAZX} }
  \cup { [content |-> cA, openable |-> FALSE] }

FileNames == <<"f1", "f2", "f3", "f4", "f5">>

RootPath == <<"root">>
MissingPath == <<"nowhere">>

\* The regular files named f1..fn with the kinds ks[1..n].
Files(ks) ==
  [n \in 1 .. Len(ks) |-> RegFile(FileNames[n], ks[n].content, ks[n].openable)]

\* The layout of the tree: f1 in root/x, an entry that is no file, f2 in
\* root/y/z, the other files in the root itself, after the directories.
Tree(ks) ==
  LET fs == Files(ks)
      n  == Len(fs)
  IN  Dir("root",
          <<Dir("x", SubSeq(fs, 1, Min(1, n))),
            Other("sock"),
            Dir("y", <<Dir("z", SubSeq(fs, 2, Min(2, n)))>>)>>
          \o SubSeq(fs, 3, n))

KindSeqs == UNION { [1 .. n -> FileKinds] : n \in 0 .. MaxFiles }
Trees == { Tree(ks) : ks \in KindSeqs }

VARIABLES
  tree,              \* the directory tree under RootPath (the environment)
  file_map,          \* fileUtils.h:42  size key -> paths in insertion order
  matching_keys,     \* fileUtils.h:46  keys with more than one path
  map_built,         \* fileUtils.h:44
  pc,                \* where FindDups stands: "idle", "key", "i", "j", "stats"
  keys,              \* the keys the loop over matching_keys has still to visit
  x,                 \* the key of the current bucket
  i, j,              \* positions in the current bucket (1-based; Len+1 is end())
  first_match, match_found,
  existing_matches,  \* fileUtils.cpp:130
  clusters,          \* the clusters printed by the current call, as printed
  lastCall,          \* the latest CompareFiles call of the current call
  open_handles,      \* FILE handles opened by fopen and not yet fclosed
  root_ok,           \* what BuildFileMap returned to the current FindDups call
  reports            \* per finished FindDups call: what it was given and printed

vars == <<tree, file_map, matching_keys, map_built, pc, keys, x, i, j,
          first_match, match_found, existing_matches, clusters, lastCall,
          open_handles, root_ok, reports>>

NotFound == [kind |-> "none"]
NoCall == [made |-> FALSE]
EmptyMap == [k \in {} |-> <<>>]

(***************************************************************************)
(* The entry a path names: boost::filesystem's view of the tree.           *)
(***************************************************************************)
RECURSIVE Lookup(_, _)
Lookup(node, path) ==
  IF path = <<>> \/ node.name # path[1] THEN NotFound
  ELSE IF Len(path) = 1 THEN node
  ELSE IF node.kind # "dir" THEN NotFound
  ELSE LET hits == { n \in 1 .. Len(node.entries) : node.entries[n].name = path[2] }
       IN  IF hits = {} THEN NotFound
           ELSE Lookup(node.entries[CHOOSE n \in hits : TRUE], Tail(path))

Exists(path) == Lookup(tree, path) # NotFound

\* boost::filesystem::file_size(path): the true size in bytes
FileSize(path) == Lookup(tree, path).content.len

(***************************************************************************)
(* BuildFileMap, fileUtils.cpp:201-243.  st is the instance state          *)
(* [file_map, matching_keys, map_built]; the result adds ret, the value    *)
(* returned.  WalkEntries is the for loop over the directory's entries.    *)
(***************************************************************************)
PushBack(fm, size, path) ==
  IF size \in DOMAIN fm
    THEN [fm EXCEPT ![size] = Append(@, path)]
    ELSE fm @@ (size :> <<path>>)

RECURSIVE BuildFileMap(_, _), WalkEntries(_, _, _, _)
WalkEntries(dir_path, entries, n, st) ==
  IF n > Len(entries) THEN st
  ELSE
    LET e    == entries[n]
        path == Append(dir_path, e.name)
    IN  IF e.kind = "dir"
          THEN LET sub == BuildFileMap(path, st)
               IN  WalkEntries(dir_path, entries, n + 1,
                               [file_map |-> sub.file_map,
                                matching_keys |-> sub.matching_keys,
                                map_built |-> sub.map_built])
        ELSE IF e.kind = "file"
          THEN LET size == ToInt(FileSize(path))
                   fm   == PushBack(st.file_map, size, path)
                   mk   == IF Len(fm[size]) > 1
                             THEN st.matching_keys \cup {size}
                             ELSE st.matching_keys
               IN  WalkEntries(dir_path, entries, n + 1,
                               [st EXCEPT !.file_map = fm, !.matching_keys = mk])
        ELSE WalkEntries(dir_path, entries, n + 1, st)

BuildFileMap(dir_path, st) ==
  IF ~Exists(dir_path)
    THEN [file_map |-> st.file_map, matching_keys |-> st.matching_keys,
          map_built |-> st.map_built, ret |-> FALSE]
    ELSE LET done == WalkEntries(dir_path, Lookup(tree, dir_path).entries, 1, st)
         IN  [file_map |-> done.file_map, matching_keys |-> done.matching_keys,
              map_built |-> TRUE, ret |-> TRUE]

(***************************************************************************)
(* CompareFiles, fileUtils.cpp:62-117.  The result records what was        *)
(* returned and what was done to the two streams: fopen calls that         *)
(* succeeded, fclose calls, fread calls on each stream, and the streams'   *)
(* end-of-file indicators when the function returned.                      *)
(***************************************************************************)
CanOpen(path) ==
  LET n == Lookup(tree, path) IN n.kind = "file" /\ n.openable

\* fread of got bytes from offset off into a block that new char[size]() has
\* zeroed: byte p of the block
Block(c, off, got, p) == IF p < got THEN Byte(c, off + p) ELSE 0

Max(a, b) == IF a > b THEN a ELSE b

\* CompareLoop with a plausible slip: a read that delivers no byte is taken
\* for a failure and ends the comparison with false.
RECURSIVE CompareLoopEmptyReadFails(_, _, _, _, _, _, _)
CompareLoopEmptyReadFails(c1, c2, pass, size, off1, off2, rounds) ==
  LET sz    == IF pass < MAX_PASS THEN BUFFER_SIZE[pass + 1] ELSE size
      pass2 == IF pass < MAX_PASS THEN pass + 1 ELSE pass
      got1  == Min(sz, c1.len - off1)
      got2  == Min(sz, c2.len - off2)
      eof1  == got1 < sz
      eof2  == got2 < sz
      \* memcmp(block1, block2, size) != 0.  Past the longer of the two
      \* reads both blocks hold the zeros they were created with, so the
      \* offsets below Max(got1, got2) decide it.
      differ == \E p \in 0 .. (Max(got1, got2) - 1) :
                   Block(c1, off1, got1, p) # Block(c2, off2, got2, p)
  IN  IF differ \/ got1 = 0 \/ got2 = 0
        THEN [ret |-> FALSE, opened |-> 2, closed |-> 2,
              reads1 |-> rounds + 1, reads2 |-> rounds + 1,
              eof1 |-> eof1, eof2 |-> eof2]
      ELSE IF ~eof1 /\ ~eof2
        THEN CompareLoopEmptyReadFails(c1, c2, pass2, sz, off1 + got1, off2 + got2, rounds + 1)
      ELSE [ret |-> TRUE, opened |-> 2, closed |-> 2,
            reads1 |-> rounds + 1, reads2 |-> rounds + 1,
            eof1 |-> eof1, eof2 |-> eof2]

\* The do ... while loop of CompareFiles, fileUtils.cpp:87-116: the rounds
\* after the first `rounds` of them, with the streams at off1 and off2.
RECURSIVE CompareLoop(_, _, _, _, _, _, _)
CompareLoop(c1, c2, pass, size, off1, off2, rounds) ==
  LET sz    == IF pass < MAX_PASS THEN BUFFER_SIZE[pass + 1] ELSE size
      pass2 == IF pass < MAX_PASS THEN pass + 1 ELSE pass
      got1  == Min(sz, c1.len - off1)
      got2  == Min(sz, c2.len - off2)
      eof1  == got1 < sz
      eof2  == got2 < sz
      \* memcmp(block1, block2, size) != 0.  Past the longer of the two
      \* reads both blocks hold the zeros they were created with, so the
      \* offsets below Max(got1, got2) decide it.
      differ == \E p \in 0 .. (Max(got1, got2) - 1) :
                   Block(c1, off1, got1, p) # Block(c2, off2, got2, p)
  IN  IF differ
        THEN [ret |-> FALSE, opened |-> 2, closed |-> 2,
              reads1 |-> rounds + 1, reads2 |-> rounds + 1,
              eof1 |-> eof1, eof2 |-> eof2]
      ELSE IF ~eof1 /\ ~eof2
        THEN CompareLoop(c1, c2, pass2, sz, off1 + got1, off2 + got2, rounds + 1)
      ELSE [ret |-> TRUE, opened |-> 2, closed |-> 2,
            reads1 |-> rounds + 1, reads2 |-> rounds + 1,
            eof1 |-> eof1, eof2 |-> eof2]

CompareFiles(file1, file2) ==
  LET ok1 == CanOpen(file1)
      ok2 == CanOpen(file2)
      nopen == (IF ok1 THEN 1 ELSE 0) + (IF ok2 THEN 1 ELSE 0)
  IN  IF ~ok1 \/ ~ok2
        THEN [ret |-> FALSE, opened |-> nopen, closed |-> 0,
              reads1 |-> 0, reads2 |-> 0, eof1 |-> FALSE, eof2 |-> FALSE]
        ELSE CompareLoop(Lookup(tree, file1).content, Lookup(tree, file2).content,
                         0, 0, 0, 0, 0)

(***************************************************************************)
(* Iteration helpers: std::set<int> is visited in ascending key order;     *)
(* PrintMapStats sums over every bucket of file_map.                       *)
(***************************************************************************)
RECURSIVE SortedSeq(_)
SortedSeq(S) ==
  IF S = {} THEN <<>>
  ELSE LET m == CHOOSE m \in S : \A y \in S : m <= y
       IN  <<m>> \o SortedSeq(S \ {m})

RECURSIVE NumFiles(_, _)
NumFiles(fm, ks) ==
  IF ks = {} THEN 0
  ELSE LET k == CHOOSE k \in ks : TRUE
       IN  Len(fm[k]) + NumFiles(fm, ks \ {k})

RECURSIVE TotalBytes(_, _)
TotalBytes(fm, ks) ==
  IF ks = {} THEN 0
  ELSE LET k == CHOOSE k \in ks : TRUE
       IN  k * Len(fm[k]) + TotalBytes(fm, ks \ {k})

Init ==
  /\ tree \in Trees
  /\ file_map = EmptyMap
  /\ matching_keys = {}
  /\ map_built = FALSE
  /\ pc = "idle"
  /\ keys = <<>>
  /\ x = 0
  /\ i = 0
  /\ j = 0
  /\ first_match = FALSE
  /\ match_found = FALSE
  /\ existing_matches = {}
  /\ clusters = <<>>
  /\ lastCall = NoCall
  /\ open_handles = 0
  /\ root_ok = FALSE
  /\ reports = <<>>

(***************************************************************************)
(* FindDups, fileUtils.cpp:33-49: BuildFileMap, whose result is dropped,   *)
(* then CompareMatchingKeys, then PrintMapStats.  This action is the call  *)
(* up to the head of CompareMatchingKeys' loop over matching_keys.         *)
(***************************************************************************)
FindDups(dir_path) ==
  /\ pc = "idle"
  /\ Len(reports) < MaxCalls
  /\ LET b == BuildFileMap(dir_path, [file_map |-> file_map,
                                      matching_keys |-> matching_keys,
                                      map_built |-> map_built])
     IN  /\ file_map' = b.file_map
         /\ matching_keys' = b.matching_keys
         /\ map_built' = b.map_built
         /\ root_ok' = b.ret
         /\ keys' = SortedSeq(b.matching_keys)
  /\ existing_matches' = {}
  /\ clusters' = <<>>
  /\ lastCall' = NoCall
  /\ pc' = "key"
  /\ UNCHANGED <<tree, x, i, j, first_match, match_found, open_handles, reports>>

\* for(auto& x : matching_keys), fileUtils.cpp:136-139
NextKey ==
  /\ pc = "key"
  /\ IF keys # <<>>
       THEN /\ x' = Head(keys)
            /\ keys' = Tail(keys)
            /\ i' = 1
            /\ pc' = "i"
       ELSE /\ pc' = "stats"
            /\ UNCHANGED <<x, keys, i>>
  /\ UNCHANGED <<tree, file_map, matching_keys, map_built, j, first_match,
                 match_found, existing_matches, clusters, lastCall,
                 open_handles, root_ok, reports>>

\* for(i=curr.begin();i!=curr.end();i++), fileUtils.cpp:142-146
ILoop ==
  /\ pc = "i"
  /\ IF i <= Len(file_map[x])
       THEN /\ first_match' = TRUE
            /\ match_found' = FALSE
            /\ j' = i + 1
            /\ pc' = "j"
       ELSE /\ pc' = "key"
            /\ UNCHANGED <<first_match, match_found, j>>
  /\ UNCHANGED <<tree, file_map, matching_keys, map_built, keys, x, i,
                 existing_matches, clusters, lastCall, open_handles, root_ok,
                 reports>>

\* fileUtils.cpp:150-153: *i is in existing_matches, continue
JSkip ==
  /\ pc = "j"
  /\ j <= Len(file_map[x])
  /\ file_map[x][i] \in existing_matches
  /\ j' = j + 1
  /\ UNCHANGED <<tree, file_map, matching_keys, map_built, pc, keys, x, i,
                 first_match, match_found, existing_matches, clusters,
                 lastCall, open_handles, root_ok, reports>>

\* fileUtils.cpp:156-175: CompareFiles(*i,*j) and the printing of a match
JCompare ==
  /\ pc = "j"
  /\ j <= Len(file_map[x])
  /\ file_map[x][i] \notin existing_matches
  /\ LET fi == file_map[x][i]
         fj == file_map[x][j]
         r  == CompareFiles(fi, fj)
     IN  /\ lastCall' = [made |-> TRUE, file1 |-> fi, file2 |-> fj, key |-> x,
                         matched |-> existing_matches, res |-> r]
         /\ open_handles' = open_handles + r.opened - r.closed
         /\ IF r.ret
              THEN /\ clusters' =
                        IF first_match
                          THEN Append(clusters, <<fi, fj>>)
                          ELSE [clusters EXCEPT ![Len(clusters)] = Append(@, fj)]
                   /\ match_found' = (IF first_match THEN TRUE ELSE match_found)
                   /\ first_match' = FALSE
                   /\ existing_matches' = existing_matches \cup {fj}
              ELSE UNCHANGED <<clusters, match_found, first_match, existing_matches>>
  /\ j' = j + 1
  /\ UNCHANGED <<tree, file_map, matching_keys, map_built, pc, keys, x, i,
                 root_ok, reports>>

\* fileUtils.cpp:179-184: the end of the j loop, then i++
JEnd ==
  /\ pc = "j"
  /\ j > Len(file_map[x])
  /\ existing_matches' =
       IF match_found THEN existing_matches \cup {file_map[x][i]}
                      ELSE existing_matches
  /\ i' = i + 1
  /\ pc' = "i"
  /\ UNCHANGED <<tree, file_map, matching_keys, map_built, keys, x, j,
                 first_match, match_found, clusters, lastCall, open_handles,
                 root_ok, reports>>

(***************************************************************************)
(* PrintMapStats, fileUtils.cpp:273-288, and the return of FindDups.  The  *)
(* total is kept in bytes; the program prints it divided by 2^20.          *)
(***************************************************************************)
PrintMapStats ==
  /\ pc = "stats"
  /\ reports' = Append(reports,
                  [dir_found |-> root_ok,
                   clusters |-> clusters,
                   num_files |-> NumFiles(file_map, DOMAIN file_map),
                   total_size |-> TotalBytes(file_map, DOMAIN file_map)])
  /\ pc' = "idle"
  /\ UNCHANGED <<tree, file_map, matching_keys, map_built, keys, x, i, j,
                 first_match, match_found, existing_matches, clusters,
                 lastCall, open_handles, root_ok>>

Next ==
  \/ \E dir_path \in {RootPath, MissingPath} : FindDups(dir_path)
  \/ NextKey
  \/ ILoop
  \/ JSkip
  \/ JCompare
  \/ JEnd
  \/ PrintMapStats

Spec == Init /\ [][Next]_vars

(***************************************************************************)
(* Vocabulary of the properties.                                           *)
(***************************************************************************)
\* The paths of the regular files under a directory, as the tree holds them.
RECURSIVE RegularFiles(_, _)
RegularFiles(dir_path, node) ==
  UNION { LET e    == node.entries[n]
              path == Append(dir_path, e.name)
          IN  IF e.kind = "file" THEN {path}
              ELSE IF e.kind = "dir" THEN RegularFiles(path, e)
              ELSE {}
          : n \in 1 .. Len(node.entries) }

TreeFiles == RegularFiles(RootPath, tree)

ContentOf(path) == Lookup(tree, path).content

\* The places <<key, position>> of the index that hold a path.
PlacesOf(path) ==
  { <<k, n>> \in UNION { {k} \X (1 .. Len(file_map[k])) : k \in DOMAIN file_map } :
      file_map[k][n] = path }

\* Every path printed by the current call, in the order printed.
RECURSIVE Flat(_)
Flat(cs) == IF cs = <<>> THEN <<>> ELSE Head(cs) \o Flat(Tail(cs))

NoRepeat(seq) ==
  \A m, n \in 1 .. Len(seq) : seq[m] = seq[n] => m = n

ClustersOf(path) ==
  { n \in 1 .. Len(clusters) : \E m \in 1 .. Len(clusters[n]) : clusters[n][m] = path }

SameCluster(p, q) == ClustersOf(p) \cap ClustersOf(q) # {}

\* The first position of a path in a bucket.
Pos(bucket, path) ==
  CHOOSE n \in 1 .. Len(bucket) :
    /\ bucket[n] = path
    /\ \A m \in 1 .. (n - 1) : bucket[m] # path

\* The bucket that holds a path.
BucketOf(path) ==
  file_map[CHOOSE k \in DOMAIN file_map :
             \E n \in 1 .. Len(file_map[k]) : file_map[k][n] = path]

FirstCall == Len(reports) = 0

\* A file whose true size no other file of the tree has.
UniqueSize(path) ==
  \A q \in TreeFiles \ {path} : FileSize(q) # FileSize(path)

BothOpened == lastCall.made /\ lastCall.res.opened = 2

ZeroLengthCall ==
  /\ BothOpened
  /\ FileSize(lastCall.file1) = 0
  /\ FileSize(lastCall.file2) = 0

(***************************************************************************)
(* C1.  Within the first FindDups call on a fresh instance no path is      *)
(* printed twice: the paths of all the clusters printed are pairwise       *)
(* distinct, across the clusters and inside each.                          *)
(***************************************************************************)
C1_NoDoubleReport == FirstCall => NoRepeat(Flat(clusters))

(***************************************************************************)
(* C2.  When the clustering of a call is complete, the clusters printed    *)
(* are the byte-equality classes of two or more members: two openable      *)
(* paths of one bucket share a cluster exactly if their contents are       *)
(* byte-identical, each cluster starts with the earliest path of its class *)
(* in bucket order and goes on in bucket order.                            *)
(***************************************************************************)
C2_ClustersAreClasses ==
  pc = "stats" =>
    /\ \A k \in matching_keys :
         \A m, n \in 1 .. Len(file_map[k]) :
           LET p == file_map[k][m]
               q == file_map[k][n]
           IN  (p # q /\ CanOpen(p) /\ CanOpen(q)) =>
                 (SameCluster(p, q) <=> SameBytes(ContentOf(p), ContentOf(q)))
    /\ \A c \in 1 .. Len(clusters) :
         LET cl == clusters[c]
             b  == BucketOf(cl[1])
         IN  /\ Len(cl) >= 2
             /\ \A m, n \in 1 .. Len(cl) : m < n => Pos(b, cl[m]) < Pos(b, cl[n])
             /\ \A n \in 1 .. Len(b) :
                  (CanOpen(b[n]) /\ SameBytes(ContentOf(b[n]), ContentOf(cl[1])))
                    => Pos(b, cl[1]) <= n

(***************************************************************************)
(* C3.  CompareFiles on two files it could open returns true only if the   *)
(* two have the same size and the same bytes, and only once both streams   *)
(* are at end-of-file.                                                     *)
(***************************************************************************)
C3_TrueOnlyIfIdentical ==
  (BothOpened /\ lastCall.res.ret) =>
    /\ SameBytes(ContentOf(lastCall.file1), ContentOf(lastCall.file2))
    /\ lastCall.res.eof1
    /\ lastCall.res.eof2

(***************************************************************************)
(* C4.  Every handle CompareFiles opens is closed before it returns: the   *)
(* call closes as many streams as it opened, and between calls no handle   *)
(* is open.                                                                *)
(***************************************************************************)
C4_HandlesReleased ==
  /\ open_handles = 0
  /\ lastCall.made => lastCall.res.closed = lastCall.res.opened

(***************************************************************************)
(* C5.  A FindDups call whose root path does not exist halts at the root   *)
(* check: it enters neither the clustering nor the stats stage, calls      *)
(* CompareFiles for no pair, prints no cluster and no stats, and on a      *)
(* fresh instance leaves the index empty.                                  *)
(***************************************************************************)
C5_MissingRootHalts ==
  /\ ~root_ok =>
       /\ pc = "idle"
       /\ ~lastCall.made
       /\ clusters = <<>>
       /\ FirstCall => file_map = EmptyMap
  /\ \A n \in 1 .. Len(reports) : reports[n].dir_found

(***************************************************************************)
(* C6.  Every CompareFiles call is on two distinct paths of one bucket     *)
(* whose key is in matching_keys, and neither path is a file whose true    *)
(* size no other file of the tree has.                                     *)
(***************************************************************************)
C6_OnlyCollidingSizesCompared ==
  lastCall.made =>
    /\ lastCall.file1 # lastCall.file2
    /\ lastCall.key \in matching_keys
    /\ \E m, n \in 1 .. Len(file_map[lastCall.key]) :
         /\ file_map[lastCall.key][m] = lastCall.file1
         /\ file_map[lastCall.key][n] = lastCall.file2
    /\ ~UniqueSize(lastCall.file1)
    /\ ~UniqueSize(lastCall.file2)

(***************************************************************************)
(* C7, as the spec states it.  CompareFiles on two zero-length files       *)
(* returns true and has issued no read on either stream.                   *)
(***************************************************************************)
C7_ZeroLengthNoRead ==
  ZeroLengthCall =>
    /\ lastCall.res.ret
    /\ lastCall.res.reads1 = 0
    /\ lastCall.res.reads2 = 0

(***************************************************************************)
(* C7, amended.  CompareFiles on two zero-length files returns true after  *)
(* one round: exactly one read is issued on each stream, it puts both at   *)
(* end-of-file, and both streams are closed.                               *)
(***************************************************************************)
C7_ZeroLengthOneRead ==
  ZeroLengthCall =>
    /\ lastCall.res.ret
    /\ lastCall.res.reads1 = 1
    /\ lastCall.res.reads2 = 1
    /\ lastCall.res.eof1
    /\ lastCall.res.eof2
    /\ lastCall.res.closed = 2

\* C7's case: two zero-length files have been compared.
C7_Witness == ZeroLengthCall /\ lastCall.file1 # lastCall.file2

(***************************************************************************)
(* C8.  No path of the matched set is passed to CompareFiles: at each call *)
(* both operands are outside existing_matches.                             *)
(***************************************************************************)
C8_MatchedNeverCompared ==
  lastCall.made =>
    /\ lastCall.file1 \notin lastCall.matched
    /\ lastCall.file2 \notin lastCall.matched

(***************************************************************************)
(* C9.  After BuildFileMap has completed, every regular file under the     *)
(* root is at exactly one place of the index, the key of its bucket is the *)
(* file's true size, and a bucket holds files of one true size only.       *)
(***************************************************************************)
C9_KeyIsTrueSize ==
  root_ok =>
    /\ \A p \in TreeFiles :
         /\ Cardinality(PlacesOf(p)) = 1
         /\ \A pl \in PlacesOf(p) : pl[1] = FileSize(p)
    /\ \A k \in DOMAIN file_map :
         \A m, n \in 1 .. Len(file_map[k]) :
           FileSize(file_map[k][m]) = FileSize(file_map[k][n])

(***************************************************************************)
(* C10.  After any sequence of FindDups calls on the existing root, the    *)
(* index holds each path exactly once and the last call has printed the    *)
(* clusters and the file count the first call printed.                     *)
(***************************************************************************)
C10_Repeatable ==
  (/\ pc = "idle"
   /\ reports # <<>>
   /\ \A n \in 1 .. Len(reports) : reports[n].dir_found) =>
    /\ \A p \in TreeFiles : Cardinality(PlacesOf(p)) = 1
    /\ reports[Len(reports)].clusters = reports[1].clusters
    /\ reports[Len(reports)].num_files = reports[1].num_files

=============================================================================
